---- MODULE Spec2Model ----
(***************************************************************************)
(* DSS-TRACK backend (src/backend/main.py): the session store, the greedy  *)
(* duplicate-grouping pass of /analyze, the review ledger of /review and   *)
(* the report of /export, as a state machine over the HTTP handlers.       *)
(*                                                                         *)
(* Abstractions.  A table is its row count and its column names; a cell    *)
(* value is never inspected by the handlers modelled here.  Similarity     *)
(* scores and thresholds are levels 0..MaxScore of the cosine scale.  The  *)
(* sentence-transformer and cosine_similarity are external and             *)
(* deterministic: the matrix they return for a table is fixed by the       *)
(* table's cells, so a table carries it in place of its cell values.       *)
(* uuid4 values are drawn from a counter, so that no identifier is ever    *)
(* issued twice.                                                           *)
(***************************************************************************)
EXTENDS Integers, Sequences, FiniteSets, TLC

\* ---- bounds of the model ----
MaxRows == 3
MaxScore == 2
MaxSessions == 2
MaxUuid == 2
MaxCalls == 5
MaxReviewed == 2

\* ---- program constants ----
max_retries == 3

VARIABLES pc, model, sessions, uuid, response, served

vars == <<pc, model, sessions, uuid, response, served>>

\* ---- small helpers ----
Range(s) == { s[k] : k \in 1..Len(s) }

RECURSIVE Ascending(_)
Ascending(S) ==
    IF S = {} THEN <<>>
    ELSE LET lo == CHOOSE x \in S : \A y \in S : x <= y
         IN  <<lo>> \o Ascending(S \ {lo})

RECURSIVE SumSeq(_)
SumSeq(s) == IF s = <<>> THEN 0 ELSE Head(s) + SumSeq(Tail(s))

\* ---- input domains ----
Scores == 0..MaxScore
Thresholds == 1..MaxScore
RowIndices(n) == 0..(n - 1)
ColumnNames == {"name", "city"}
TableColumns == <<"name">>
FileNames == {"rows.csv", "rows.txt"}
UnknownId == 0

\* The N x N matrices cosine_similarity can return for N rows: a row's
\* similarity to itself is the top of the scale, every other entry is free
\* (the handlers never rely on symmetry).
Matrices(n) ==
    LET off == { p \in RowIndices(n) \X RowIndices(n) : p[1] # p[2] }
    IN  { [i \in RowIndices(n) |-> [j \in RowIndices(n) |->
              IF i = j THEN MaxScore ELSE f[<<i, j>>]]] : f \in [off -> Scores] }

\* Matrices of tables whose rows drift apart with their distance in the file:
\* the score of two rows depends on |i - j| only and never grows with it.
Distance(i, j) == IF i >= j THEN i - j ELSE j - i
BandedMatrices(n) ==
    { [i \in RowIndices(n) |-> [j \in RowIndices(n) |-> band[Distance(i, j)]]] :
          band \in { b \in [RowIndices(n) -> Scores] :
                         /\ b[0] = MaxScore
                         /\ \A d \in 1..(n - 1) : b[d] <= b[d - 1] } }

\* A parsed table: its row count, its columns, and the similarity matrix its
\* rows have under the embedder.
DataFrame(similarity) ==
    [rows |-> Cardinality(DOMAIN similarity), columns |-> TableColumns,
     similarity |-> similarity]
EmptyFrame == [rows |-> 0, columns |-> TableColumns, similarity |-> <<>>]
AllTables == UNION { { DataFrame(m) : m \in Matrices(n) } : n \in 1..MaxRows }
BandedTables == UNION { { DataFrame(m) : m \in BandedMatrices(n) } : n \in 1..MaxRows }

Symmetric(m) == \A i \in DOMAIN m : \A j \in DOMAIN m : m[i][j] = m[j][i]

\* ---- responses ----
DefaultThreshold == MaxScore
NoBody == <<>>
Ok(op, sid, body) ==
    [op |-> op, session_id |-> sid, status |-> 200, raised |-> 200,
     detail |-> "", body |-> body]
\* raise HTTPException(status_code=code, detail=detail) inside the handler's
\* try block: `except Exception` catches it and raises a 500 in its place.
HTTPException(op, sid, code, detail) ==
    [op |-> op, session_id |-> sid, status |-> 500, raised |-> code,
     detail |-> detail, body |-> NoBody]

\* ---- SessionData ----
SessionData(session_id, df, filename) ==
    [session_id |-> session_id,
     original_df |-> df,
     filename |-> filename,
     selected_columns |-> <<>>,
     duplicate_groups |-> <<>>,
     reviewed_duplicates |-> <<>>,
     embeddings |-> "None",
     similarity_threshold |-> DefaultThreshold]

\* ---- /analyze: the grouping pass ----
\* np.where((similarity_matrix[i] >= threshold) & (arange != i))[0]
SimilarIndicesForwardOnly(m, i, threshold) ==
    Ascending({ j \in DOMAIN m : m[i][j] >= threshold /\ j > i })


SimilarIndicesStrict(m, i, threshold) ==
    Ascending({ j \in DOMAIN m : m[i][j] > threshold /\ j # i })

SimilarIndicesWithSelf(m, i, threshold) ==
    Ascending({ j \in DOMAIN m : m[i][j] >= threshold })

SimilarIndices(m, i, threshold) ==
    Ascending({ j \in DOMAIN m : m[i][j] >= threshold /\ j # i })


MakeGroupTransposed(m, duplicate_id, group_indices) ==
    [duplicate_id |-> duplicate_id,
     rows |-> [k \in 1..Len(group_indices) |->
        LET idx == group_indices[k]
        IN  [original_index |-> idx,
             similarity_scores |->
                 [other_idx \in Range(group_indices) \ {idx} |-> m[other_idx][idx]]]]]

\* One group dict: {"duplicate_id": ..., "rows": [...]}, each row carrying its
\* original_index and its similarity_scores against the other members.
MakeGroup(m, duplicate_id, group_indices) ==
    [duplicate_id |-> duplicate_id,
     rows |-> [k \in 1..Len(group_indices) |->
        LET idx == group_indices[k]
        IN  [original_index |-> idx,
             similarity_scores |->
                 [other_idx \in Range(group_indices) \ {idx} |-> m[idx][other_idx]]]]]

RECURSIVE GroupLoopNoSkip(_, _, _, _, _, _)
GroupLoopNoSkip(m, threshold, i, processed_indices, duplicate_groups, next_id) ==
    IF i >= Cardinality(DOMAIN m) THEN duplicate_groups
    ELSE LET similar_indices == SimilarIndices(m, i, threshold)
             group_indices == <<i>> \o similar_indices
         IN  IF Len(similar_indices) > 0
             THEN GroupLoopNoSkip(m, threshold, i + 1,
                                  processed_indices \cup Range(group_indices),
                                  Append(duplicate_groups, MakeGroup(m, next_id, group_indices)),
                                  next_id + 1)
             ELSE GroupLoopNoSkip(m, threshold, i + 1, processed_indices,
                                  duplicate_groups, next_id)

RECURSIVE GroupLoop(_, _, _, _, _, _)
GroupLoop(m, threshold, i, processed_indices, duplicate_groups, next_id) ==
    IF i >= Cardinality(DOMAIN m) THEN duplicate_groups
    ELSE IF i \in processed_indices
         THEN GroupLoop(m, threshold, i + 1, processed_indices, duplicate_groups, next_id)
    ELSE LET similar_indices == SimilarIndices(m, i, threshold)
             group_indices == <<i>> \o similar_indices
         IN  IF Len(similar_indices) > 0
             THEN GroupLoop(m, threshold, i + 1,
                            processed_indices \cup Range(group_indices),
                            Append(duplicate_groups, MakeGroup(m, next_id, group_indices)),
                            next_id + 1)
             ELSE GroupLoop(m, threshold, i + 1, processed_indices, duplicate_groups, next_id)


FindDuplicateGroupsNewestFirst(m, threshold, first_id) ==
    LET found == GroupLoop(m, threshold, 0, {}, <<>>, first_id)
    IN  [g \in 1..Len(found) |-> found[Len(found) + 1 - g]]

\* The groups of one analysis run; first_id is the first uuid4 it draws.
FindDuplicateGroups(m, threshold, first_id) ==
    GroupLoop(m, threshold, 0, {}, <<>>, first_id)

Indices(group) == [k \in 1..Len(group.rows) |-> group.rows[k].original_index]
GroupedRows(groups) == UNION { Range(Indices(groups[g])) : g \in 1..Len(groups) }
TotalRows(groups) == SumSeq([g \in 1..Len(groups) |-> Len(groups[g].rows)])
GroupIds(groups) == { groups[g].duplicate_id : g \in 1..Len(groups) }

\* ---- /export: the report ----
\* session.reviewed_duplicates.get(duplicate_id, False)
IsConfirmed(session, group) ==
    IF group.duplicate_id \in DOMAIN session.reviewed_duplicates
    THEN session.reviewed_duplicates[group.duplicate_id]
    ELSE FALSE

ConfirmedGroups(session) ==
    { g \in 1..Len(session.duplicate_groups) :
          IsConfirmed(session, session.duplicate_groups[g]) }

\* confirmed_duplicate_indices.update(indices[1:]) over the confirmed groups
ConfirmedDuplicateIndices(session) ==
    UNION { Range(Tail(Indices(session.duplicate_groups[g]))) : g \in ConfirmedGroups(session) }

\* duplicate_mapping[idx] = canonical_idx, written group after group: a later
\* confirmed group overwrites the entry an earlier one wrote for the same idx.
DuplicateMapping(session) ==
    LET groups == session.duplicate_groups
        holders(idx) == { g \in ConfirmedGroups(session) : idx \in Range(Indices(groups[g])) }
        last(idx) == CHOOSE g \in holders(idx) : \A h \in holders(idx) : h <= g
    IN  [idx \in { x \in GroupedRows(groups) : holders(x) # {} } |->
            Indices(groups[last(idx)])[1]]

\* original_df.drop(index=list(confirmed_duplicate_indices)).reset_index(drop=True):
\* the surviving rows, named by their original position, in table order.
Deduplicated(session) ==
    Ascending(RowIndices(session.original_df.rows) \ ConfirmedDuplicateIndices(session))


RECURSIVE DuplicatesDataRemovedOnly(_, _)
DuplicatesDataRemovedOnly(session, g) ==
    IF g > Len(session.duplicate_groups) THEN <<>>
    ELSE LET group == session.duplicate_groups[g]
             indices == Indices(group)
             canonical_idx == indices[1]
         IN  (IF IsConfirmed(session, group)
              THEN [k \in 1..(Len(indices) - 1) |->
                       [Original_Row_Index |-> indices[k + 1],
                        Canonical_Row_Index |-> canonical_idx,
                        Is_Canonical |-> (indices[k + 1] = canonical_idx),
                        Duplicate_Group_ID |-> group.duplicate_id]]
              ELSE <<>>) \o DuplicatesDataRemovedOnly(session, g + 1)

RECURSIVE DuplicatesData(_, _)
DuplicatesData(session, g) ==
    IF g > Len(session.duplicate_groups) THEN <<>>
    ELSE LET group == session.duplicate_groups[g]
             indices == Indices(group)
             canonical_idx == indices[1]
         IN  (IF IsConfirmed(session, group)
              THEN [k \in 1..Len(indices) |->
                       [Original_Row_Index |-> indices[k],
                        Canonical_Row_Index |-> canonical_idx,
                        Is_Canonical |-> (indices[k] = canonical_idx),
                        Duplicate_Group_ID |-> group.duplicate_id]]
              ELSE <<>>) \o DuplicatesData(session, g + 1)

Statistics(session) ==
    LET reviewed == session.reviewed_duplicates
        total_potential_groups == Len(session.duplicate_groups)
        total_reviewed == Cardinality(DOMAIN reviewed)
        confirmed_true == Cardinality({ d \in DOMAIN reviewed : reviewed[d] })
        confirmed_false == Cardinality({ d \in DOMAIN reviewed : ~reviewed[d] })
        total_confirmed_duplicates == Cardinality(ConfirmedDuplicateIndices(session))
    IN  [original_row_count |-> session.original_df.rows,
         deduplicated_row_count |-> Len(Deduplicated(session)),
         rows_removed |-> total_confirmed_duplicates,
         groups_identified |-> total_potential_groups,
         groups_reviewed |-> total_reviewed,
         groups_confirmed |-> confirmed_true,
         groups_rejected |-> confirmed_false,
         groups_pending |-> total_potential_groups - total_reviewed,
         rows_in_groups |-> TotalRows(session.duplicate_groups),
         confirmed_duplicate_rows |-> total_confirmed_duplicates,
         similarity_threshold |-> session.similarity_threshold,
         columns_analyzed |-> session.selected_columns]

Report(session) ==
    [original |-> Ascending(RowIndices(session.original_df.rows)),
     deduplicated |-> Deduplicated(session),
     duplicates |-> DuplicatesData(session, 1),
     statistics |-> Statistics(session)]

\* ---- the handlers ----
Init ==
    /\ pc = "startup"
    /\ model = FALSE
    /\ sessions = <<>>
    /\ uuid = 0
    /\ response = Ok("none", UnknownId, NoBody)
    /\ served = 0

\* @app.on_event("startup"): up to max_retries attempts; `failures` of them
\* fail before one succeeds, or all of them fail and model stays None.
LoadModel ==
    /\ pc = "startup"
    /\ \E failures \in 0..max_retries :
           model' = (failures < max_retries)
    /\ pc' = "serving"
    /\ UNCHANGED <<sessions, uuid, response, served>>

HealthCheck ==
    /\ pc = "serving"
    /\ response' = Ok("health", UnknownId, [status |-> "healthy"])
    /\ UNCHANGED <<pc, model, sessions, uuid>>

Supported(filename) == filename \in {"rows.csv", "rows.xlsx", "rows.xls"}

UploadFile(filename, df) ==
    /\ pc = "serving"
    /\ Cardinality(DOMAIN sessions) < MaxSessions
    /\ LET session_id == Cardinality(DOMAIN sessions) + 1
       IN  IF ~Supported(filename)
           THEN /\ response' = HTTPException("upload", UnknownId, 400,
                                             "Only CSV and Excel files are supported")
                /\ UNCHANGED sessions
           ELSE IF df.rows = 0
           THEN /\ response' = HTTPException("upload", UnknownId, 400, "File is empty")
                /\ UNCHANGED sessions
           ELSE /\ sessions' = [s \in DOMAIN sessions \cup {session_id} |->
                                   IF s = session_id
                                   THEN SessionData(session_id, df, filename)
                                   ELSE sessions[s]]
                /\ response' = Ok("upload", session_id,
                                  [filename |-> filename, rows |-> df.rows,
                                   columns |-> TableColumns])
    /\ UNCHANGED <<pc, model, uuid>>

AnalyzeUnavailable(session_id) ==
    /\ pc = "serving"
    /\ ~model
    /\ response' = HTTPException("analyze", session_id, 503,
                                 "Model not loaded yet. Please try again in a few moments.")
    /\ UNCHANGED <<pc, model, sessions, uuid>>

AnalyzeNoSession(session_id) ==
    /\ pc = "serving"
    /\ model
    /\ session_id \notin DOMAIN sessions
    /\ response' = HTTPException("analyze", session_id, 404, "Session not found")
    /\ UNCHANGED <<pc, model, sessions, uuid>>

\* The handler stores the selection and the threshold before it validates the
\* columns.
AnalyzeBadColumn(session_id, columns, similarity_threshold) ==
    /\ pc = "serving"
    /\ model
    /\ session_id \in DOMAIN sessions
    /\ \E k \in 1..Len(columns) : columns[k] \notin Range(sessions[session_id].original_df.columns)
    /\ sessions' = [sessions EXCEPT ![session_id].selected_columns = columns,
                                    ![session_id].similarity_threshold = similarity_threshold]
    /\ response' = HTTPException("analyze", session_id, 400, "Column not found")
    /\ UNCHANGED <<pc, model, uuid>>


AnalyzeDuplicatesExtend(session_id, columns, similarity_threshold) ==
    /\ pc = "serving"
    /\ model
    /\ session_id \in DOMAIN sessions
    /\ \A k \in 1..Len(columns) : columns[k] \in Range(sessions[session_id].original_df.columns)
    /\ LET similarity_matrix == sessions[session_id].original_df.similarity
           found == FindDuplicateGroups(similarity_matrix, similarity_threshold, uuid + 1)
           duplicate_groups == sessions[session_id].duplicate_groups \o found
       IN  /\ uuid + Len(found) <= MaxUuid
           /\ uuid' = uuid + Len(found)
           /\ sessions' = [sessions EXCEPT ![session_id].selected_columns = columns,
                                           ![session_id].similarity_threshold = similarity_threshold,
                                           ![session_id].embeddings = "set",
                                           ![session_id].duplicate_groups = duplicate_groups]
           /\ response' = Ok("analyze", session_id,
                             [total_rows |-> sessions[session_id].original_df.rows,
                              duplicate_groups |-> Len(duplicate_groups),
                              total_potential_duplicates |-> TotalRows(duplicate_groups),
                              groups |-> duplicate_groups])
    /\ UNCHANGED <<pc, model>>

\* model.encode and cosine_similarity over the selected columns of the table,
\* then the grouping pass.
AnalyzeDuplicates(session_id, columns, similarity_threshold) ==
    /\ pc = "serving"
    /\ model
    /\ session_id \in DOMAIN sessions
    /\ \A k \in 1..Len(columns) : columns[k] \in Range(sessions[session_id].original_df.columns)
    /\ LET similarity_matrix == sessions[session_id].original_df.similarity
           duplicate_groups ==
               FindDuplicateGroups(similarity_matrix, similarity_threshold, uuid + 1)
       IN  /\ uuid + Len(duplicate_groups) <= MaxUuid
           /\ uuid' = uuid + Len(duplicate_groups)
           /\ sessions' = [sessions EXCEPT ![session_id].selected_columns = columns,
                                           ![session_id].similarity_threshold = similarity_threshold,
                                           ![session_id].embeddings = "set",
                                           ![session_id].duplicate_groups = duplicate_groups]
           /\ response' = Ok("analyze", session_id,
                             [total_rows |-> sessions[session_id].original_df.rows,
                              duplicate_groups |-> Len(duplicate_groups),
                              total_potential_duplicates |-> TotalRows(duplicate_groups),
                              groups |-> duplicate_groups])
    /\ UNCHANGED <<pc, model>>

\* The verdicts held by the whole store.
LedgerSize(store) ==
    Cardinality({ e \in (DOMAIN store) \X (0..MaxUuid) :
                      e[2] \in DOMAIN store[e[1]].reviewed_duplicates })



\* session.reviewed_duplicates[review.duplicate_id] = review.is_duplicate
SetVerdict(reviewed, duplicate_id, is_duplicate) ==
    [d \in DOMAIN reviewed \cup {duplicate_id} |->
        IF d = duplicate_id THEN is_duplicate ELSE reviewed[d]]

\* One ledger shared by every SessionData.
ReviewDuplicateShared(session_id, duplicate_id, is_duplicate) ==
    /\ pc = "serving"
    /\ session_id \in DOMAIN sessions =>
           \/ duplicate_id \in DOMAIN sessions[session_id].reviewed_duplicates
           \/ LedgerSize(sessions) < MaxReviewed
    /\ IF session_id \notin DOMAIN sessions
       THEN /\ response' = HTTPException("review", session_id, 404, "Session not found")
            /\ UNCHANGED sessions
       ELSE LET reviewed == sessions[session_id].reviewed_duplicates
                updated == SetVerdict(reviewed, duplicate_id, is_duplicate)
            IN  /\ sessions' = [s \in DOMAIN sessions |->
                                   [sessions[s] EXCEPT !.reviewed_duplicates =
                                       SetVerdict(sessions[s].reviewed_duplicates,
                                                  duplicate_id, is_duplicate)]]
                /\ response' = Ok("review", session_id,
                                  [duplicate_id |-> duplicate_id,
                                   is_duplicate |-> is_duplicate,
                                   total_reviewed |-> Cardinality(DOMAIN updated),
                                   total_groups |-> Len(sessions[session_id].duplicate_groups)])
    /\ UNCHANGED <<pc, model, uuid>>

ReviewDuplicateKeepFirst(session_id, duplicate_id, is_duplicate) ==
    /\ pc = "serving"
    /\ session_id \in DOMAIN sessions =>
           \/ duplicate_id \in DOMAIN sessions[session_id].reviewed_duplicates
           \/ LedgerSize(sessions) < MaxReviewed
    /\ IF session_id \notin DOMAIN sessions
       THEN /\ response' = HTTPException("review", session_id, 404, "Session not found")
            /\ UNCHANGED sessions
       ELSE LET reviewed == sessions[session_id].reviewed_duplicates
                updated == [d \in DOMAIN reviewed \cup {duplicate_id} |->
                               IF d \in DOMAIN reviewed THEN reviewed[d] ELSE is_duplicate]
            IN  /\ sessions' = [sessions EXCEPT ![session_id].reviewed_duplicates = updated]
                /\ response' = Ok("review", session_id,
                                  [duplicate_id |-> duplicate_id,
                                   is_duplicate |-> is_duplicate,
                                   total_reviewed |-> Cardinality(DOMAIN updated),
                                   total_groups |-> Len(sessions[session_id].duplicate_groups)])
    /\ UNCHANGED <<pc, model, uuid>>

ReviewDuplicate(session_id, duplicate_id, is_duplicate) ==
    /\ pc = "serving"
    /\ session_id \in DOMAIN sessions =>
           \/ duplicate_id \in DOMAIN sessions[session_id].reviewed_duplicates
           \/ LedgerSize(sessions) < MaxReviewed
    /\ IF session_id \notin DOMAIN sessions
       THEN /\ response' = HTTPException("review", session_id, 404, "Session not found")
            /\ UNCHANGED sessions
       ELSE LET reviewed == sessions[session_id].reviewed_duplicates
                updated == SetVerdict(reviewed, duplicate_id, is_duplicate)
            IN  /\ sessions' = [sessions EXCEPT ![session_id].reviewed_duplicates = updated]
                /\ response' = Ok("review", session_id,
                                  [duplicate_id |-> duplicate_id,
                                   is_duplicate |-> is_duplicate,
                                   total_reviewed |-> Cardinality(DOMAIN updated),
                                   total_groups |-> Len(sessions[session_id].duplicate_groups)])
    /\ UNCHANGED <<pc, model, uuid>>

\* An export that starts the review over.
ExportReportResets(session_id) ==
    /\ pc = "serving"
    /\ IF session_id \notin DOMAIN sessions
       THEN /\ response' = HTTPException("export", session_id, 404, "Session not found")
            /\ UNCHANGED sessions
       ELSE /\ response' = Ok("export", session_id, Report(sessions[session_id]))
            /\ sessions' = [sessions EXCEPT ![session_id].reviewed_duplicates = <<>>]
    /\ UNCHANGED <<pc, model, uuid>>

ExportReport(session_id) ==
    /\ pc = "serving"
    /\ IF session_id \notin DOMAIN sessions
       THEN response' = HTTPException("export", session_id, 404, "Session not found")
       ELSE response' = Ok("export", session_id, Report(sessions[session_id]))
    /\ UNCHANGED <<pc, model, sessions, uuid>>

GetSessionStatus(session_id) ==
    /\ pc = "serving"
    /\ IF session_id \notin DOMAIN sessions
       THEN response' = HTTPException("session", session_id, 404, "Session not found")
       ELSE LET session == sessions[session_id]
            IN  response' = Ok("session", session_id,
                    [filename |-> session.filename,
                     total_rows |-> session.original_df.rows,
                     selected_columns |-> session.selected_columns,
                     duplicate_groups |-> Len(session.duplicate_groups),
                     reviewed |-> Cardinality(DOMAIN session.reviewed_duplicates),
                     pending_review |-> Len(session.duplicate_groups)
                                        - Cardinality(DOMAIN session.reviewed_duplicates)])
    /\ UNCHANGED <<pc, model, sessions, uuid>>

\* ---- what a client can send ----
\* A client knows the session ids and group ids issued so far, and can always
\* send an identifier that was never issued.
KnownSessionIds == DOMAIN sessions \cup {UnknownId}
KnownGroupIds == 0..uuid
ColumnLists == { <<c>> : c \in ColumnNames }

\* One request served by the running application.
Request ==
    \/ HealthCheck
    \/ \E filename \in FileNames, df \in BandedTables \cup {EmptyFrame} : UploadFile(filename, df)
    \/ \E s \in KnownSessionIds : AnalyzeUnavailable(s)
    \/ \E s \in KnownSessionIds : AnalyzeNoSession(s)
    \/ \E s \in KnownSessionIds, c \in ColumnLists, t \in Thresholds : AnalyzeBadColumn(s, c, t)
    \/ \E s \in KnownSessionIds, c \in ColumnLists, t \in Thresholds : AnalyzeDuplicates(s, c, t)
    \/ \E s \in KnownSessionIds, d \in KnownGroupIds, b \in BOOLEAN : ReviewDuplicate(s, d, b)
    \/ \E s \in KnownSessionIds : ExportReport(s)
    \/ \E s \in KnownSessionIds : GetSessionStatus(s)

Next ==
    \/ LoadModel
    \/ served < MaxCalls /\ served' = served + 1 /\ Request

Spec == Init /\ [][Next]_vars

\* ---- one uploaded table under analysis, review and export ----
\* The state after startup loaded the model and one upload succeeded, for
\* every table of up to MaxRows rows.
InitTable ==
    /\ pc = "serving"
    /\ model = TRUE
    /\ \E df \in AllTables :
          /\ sessions = [s \in {1} |-> SessionData(1, df, "rows.csv")]
          /\ response = Ok("upload", 1, [filename |-> "rows.csv", rows |-> df.rows,
                                         columns |-> TableColumns])
    /\ uuid = 0
    /\ served = 1

RequestTable ==
    \/ \E t \in Thresholds : AnalyzeDuplicates(1, TableColumns, t)
    \/ \E d \in KnownGroupIds, b \in BOOLEAN : ReviewDuplicate(1, d, b)
    \/ ExportReport(1)
    \/ GetSessionStatus(1)

NextTable == served < MaxCalls /\ served' = served + 1 /\ RequestTable

SpecTable == InitTable /\ [][NextTable]_vars

\* ---- notions shared by the properties ----
\* The groups g # h of a session that hold a common row.
Overlapping(session) ==
    { p \in (1..Len(session.duplicate_groups)) \X (1..Len(session.duplicate_groups)) :
          /\ p[1] < p[2]
          /\ Range(Indices(session.duplicate_groups[p[1]]))
                 \cap Range(Indices(session.duplicate_groups[p[2]])) # {} }

\* Ledger verdict of a group of the current run; no entry means Pending.
Verdict(session, group) ==
    IF group.duplicate_id \notin DOMAIN session.reviewed_duplicates THEN "Pending"
    ELSE IF session.reviewed_duplicates[group.duplicate_id] THEN "ConfirmedDuplicate"
    ELSE "ConfirmedNotDuplicate"

CountVerdict(session, verdict) ==
    Cardinality({ g \in 1..Len(session.duplicate_groups) :
                      Verdict(session, session.duplicate_groups[g]) = verdict })

Exported == response.op = "export" /\ response.status = 200
Analyzed == response.op = "analyze" /\ response.status = 200
Answered == sessions[response.session_id]

\* ---- properties ----

\* C1: the groups produced by one analyze call are pairwise disjoint: no
\* original_index is a member of two groups of the same run.
C1_GroupsDisjoint ==
    \A s \in DOMAIN sessions : Overlapping(sessions[s]) = {}

\* C2: a review whose group id is not the id of a group of the session's
\* current group list is answered not-found and leaves the ledger as it was.
C2_StaleReviewRejected ==
    [][\A s \in DOMAIN sessions, d \in KnownGroupIds, b \in BOOLEAN :
          (ReviewDuplicate(s, d, b) /\ d \notin GroupIds(sessions[s].duplicate_groups))
              => /\ response'.raised = 404
                 /\ sessions'[s].reviewed_duplicates = sessions[s].reviewed_duplicates]_vars

\* C3: after a successful analyze the ledger of the session holds no verdict
\* for a group id issued so far, be it by an earlier run (discarded with its
\* groups) or by this run (every new group starts Pending).
C3_AnalyzeResetsLedger ==
    Analyzed =>
        /\ DOMAIN Answered.reviewed_duplicates \cap (1..uuid) = {}
        /\ CountVerdict(Answered, "Pending") = Len(Answered.duplicate_groups)

\* C4: an analyze call that fails leaves the session store as it was: group
\* list, column selection, threshold and ledger of every session.
C4_FailedAnalyzeNoMutation ==
    [][(response'.op = "analyze" /\ response'.status # 200 /\ served' = served + 1)
          => sessions' = sessions]_vars

\* C5: every error reaches the caller under the classification of its
\* category: not-found as 404, bad input as 400, model not loaded as 503; none
\* of them as the internal-error 500.
C5_DistinctStatusClasses ==
    /\ response.raised = 404 => response.status = 404
    /\ response.raised = 400 => response.status = 400
    /\ response.raised = 503 => response.status = 503

\* C6: the canonical row (first member) of every group confirmed as duplicate
\* is present in the de-duplicated view the export produced.
C6_CanonicalSurvives ==
    Exported =>
        \A g \in ConfirmedGroups(Answered) :
            Indices(Answered.duplicate_groups[g])[1] \in Range(response.body.deduplicated)

\* C7: when every group of the current run is confirmed, the de-duplicated row
\* count of the export is the original row count minus the sum over the groups
\* of (group size - 1).
C7_CanonicalRoundTrip ==
    (Exported /\ ConfirmedGroups(Answered) = 1..Len(Answered.duplicate_groups)) =>
        response.body.statistics.deduplicated_row_count =
            Answered.original_df.rows
                - (TotalRows(Answered.duplicate_groups) - Len(Answered.duplicate_groups))

\* C8 as stated: for every matrix, a row grouped by the run at threshold T2 is
\* grouped at every lower threshold T1, and no more rows are grouped at T2.
C8_MonotoneAnyMatrix ==
    \A s \in DOMAIN sessions :
        sessions[s].embeddings = "set" =>
            \A t1 \in Thresholds :
                t1 <= sessions[s].similarity_threshold =>
                    LET lower == FindDuplicateGroups(sessions[s].original_df.similarity, t1, 1)
                    IN  /\ GroupedRows(sessions[s].duplicate_groups) \subseteq GroupedRows(lower)
                        /\ Cardinality(GroupedRows(sessions[s].duplicate_groups))
                               <= Cardinality(GroupedRows(lower))

\* C8 amended: the same for every symmetric matrix.
C8_MonotoneSymmetric ==
    \A s \in DOMAIN sessions :
        (sessions[s].embeddings = "set" /\ Symmetric(sessions[s].original_df.similarity)) =>
            \A t1 \in Thresholds :
                t1 <= sessions[s].similarity_threshold =>
                    LET lower == FindDuplicateGroups(sessions[s].original_df.similarity, t1, 1)
                    IN  /\ GroupedRows(sessions[s].duplicate_groups) \subseteq GroupedRows(lower)
                        /\ Cardinality(GroupedRows(sessions[s].duplicate_groups))
                               <= Cardinality(GroupedRows(lower))

\* C8 witness: a symmetric table analysed at a threshold above the lowest one
\* has a group, and the lowest threshold groups strictly more rows.
C8_Witness ==
    \E s \in DOMAIN sessions :
        /\ Analyzed /\ response.session_id = s
        /\ Symmetric(sessions[s].original_df.similarity)
        /\ sessions[s].similarity_threshold > 1
        /\ sessions[s].duplicate_groups # <<>>
        /\ GroupedRows(FindDuplicateGroups(sessions[s].original_df.similarity, 1, 1))
               \ GroupedRows(sessions[s].duplicate_groups) # {}

\* C9: the verdict counts of the Statistics view, and pending_review of the
\* session-status view, count the groups of the current group list by verdict.
C9_CountsOverCurrentGroups ==
    /\ Exported =>
          LET st == response.body.statistics
          IN  /\ st.groups_confirmed = CountVerdict(Answered, "ConfirmedDuplicate")
              /\ st.groups_rejected = CountVerdict(Answered, "ConfirmedNotDuplicate")
              /\ st.groups_pending = CountVerdict(Answered, "Pending")
              /\ st.groups_pending >= 0
              /\ st.groups_reviewed <= st.groups_identified
    /\ (response.op = "session" /\ response.status = 200) =>
          response.body.pending_review = CountVerdict(Answered, "Pending")

\* C10: an export over two confirmed groups that share a row fails with an
\* internal-consistency error and produces no report.
C10_OverlapFailsLoudly ==
    (response.op = "export" /\ response.session_id \in DOMAIN sessions
        /\ \E p \in Overlapping(Answered) : {p[1], p[2]} \subseteq ConfirmedGroups(Answered))
    => (response.status = 500 /\ response.body = NoBody)

\* A session whose group list is the result of its last analyze call at its
\* stored threshold (no request of SpecTable stores a threshold without
\* running the pass).
Runs == { s \in DOMAIN sessions : sessions[s].embeddings = "set" }
Matrix(s) == sessions[s].original_df.similarity
Groups(s) == sessions[s].duplicate_groups

\* C11: in every group the anchor is the first member, and for every other
\* member j the score recorded on the anchor's row is matrix[anchor][j] as
\* read, and is >= the threshold; no row the anchor scores below the
\* threshold is a member.
C11_AnchorScores ==
    \A s \in Runs : \A g \in 1..Len(Groups(s)) :
        LET rows == Groups(s)[g].rows
            anchor == rows[1].original_index
            members == { rows[k].original_index : k \in 2..Len(rows) }
        IN  /\ DOMAIN rows[1].similarity_scores = members
            /\ \A j \in members :
                  /\ rows[1].similarity_scores[j] = Matrix(s)[anchor][j]
                  /\ rows[1].similarity_scores[j] >= sessions[s].similarity_threshold
            /\ \A j \in DOMAIN Matrix(s) :
                  (j # anchor /\ Matrix(s)[anchor][j] < sessions[s].similarity_threshold)
                      => j \notin members

\* C11 witness: an analysed table has a group whose member j scores the anchor
\* below the threshold while the anchor scores j at or above it.
C11_Witness ==
    /\ Analyzed
    /\ \E g \in 1..Len(Answered.duplicate_groups) :
          LET rows == Answered.duplicate_groups[g].rows
              anchor == rows[1].original_index
          IN  \E k \in 2..Len(rows) :
                 /\ Answered.original_df.similarity[rows[k].original_index][anchor]
                        < Answered.similarity_threshold
                 /\ rows[1].similarity_scores[rows[k].original_index]
                        >= Answered.similarity_threshold

\* Position in the group list of the group that issued a duplicate_id.
GroupOf(session, duplicate_id) ==
    CHOOSE g \in 1..Len(session.duplicate_groups) :
        session.duplicate_groups[g].duplicate_id = duplicate_id

\* C12: the group list of a session is in strictly ascending order of anchor
\* index, and the Duplicates view of an export lists the rows of the confirmed
\* groups in that same order.
C12_AnchorOrder ==
    /\ \A s \in DOMAIN sessions : \A g \in 1..Len(Groups(s)) : \A h \in 1..Len(Groups(s)) :
          g < h => Indices(Groups(s)[g])[1] < Indices(Groups(s)[h])[1]
    /\ Exported =>
          LET view == response.body.duplicates
          IN  \A k \in 1..Len(view) : \A l \in 1..Len(view) :
                  k < l => /\ GroupOf(Answered, view[k].Duplicate_Group_ID)
                                <= GroupOf(Answered, view[l].Duplicate_Group_ID)
                           /\ view[k].Canonical_Row_Index <= view[l].Canonical_Row_Index

\* C12 witness: an export whose Duplicates view holds the rows of two confirmed
\* groups.
C12_Witness ==
    /\ Exported
    /\ Cardinality(ConfirmedGroups(Answered)) = 2
    /\ Cardinality({ response.body.duplicates[k].Duplicate_Group_ID :
                         k \in 1..Len(response.body.duplicates) }) = 2

Reviewed == response.op = "review" /\ response.status = 200

\* The rows a report leaves out of its de-duplicated view, and the group ids
\* its Duplicates view names.
RemovedRows(report) == Range(report.original) \ Range(report.deduplicated)
ListedIds(report) ==
    { report.duplicates[k].Duplicate_Group_ID : k \in 1..Len(report.duplicates) }

\* C13: only the latest verdict of a group id counts.  The verdict a review
\* call carries is the ledger's verdict for that id from then on, whatever was
\* there before.  An export removes a row only if it is a non-first member of a
\* current group whose ledger verdict is confirmed-duplicate, and a current
\* group that is pending or not-duplicate adds no row to the Duplicates view.
C13_LatestVerdictCounts ==
    /\ Reviewed =>
          Answered.reviewed_duplicates[response.body.duplicate_id] = response.body.is_duplicate
    /\ Exported =>
          /\ \A r \in RemovedRows(response.body) :
                \E g \in 1..Len(Answered.duplicate_groups) :
                    /\ r \in Range(Tail(Indices(Answered.duplicate_groups[g])))
                    /\ Verdict(Answered, Answered.duplicate_groups[g]) = "ConfirmedDuplicate"
          /\ \A g \in 1..Len(Answered.duplicate_groups) :
                Verdict(Answered, Answered.duplicate_groups[g]) # "ConfirmedDuplicate"
                    => Answered.duplicate_groups[g].duplicate_id \notin ListedIds(response.body)

\* C13 witness: an export of a session with one group confirmed and one group
\* marked not-duplicate, where a row was removed.
C13_Witness ==
    /\ Exported
    /\ CountVerdict(Answered, "ConfirmedDuplicate") = 1
    /\ CountVerdict(Answered, "ConfirmedNotDuplicate") = 1
    /\ RemovedRows(response.body) # {}

\* The rows of a Duplicates view that carry one group id, in view order.
RowsOfGroup(view, duplicate_id) ==
    LET carries(row) == row.Duplicate_Group_ID = duplicate_id
    IN  SelectSeq(view, carries)

\* C14: in the Duplicates view every confirmed group has exactly one row per
\* member, in member order, each with the group's canonical index, and exactly
\* one of them, the first member's, is flagged canonical; an export of a
\* session with no confirmed group succeeds with an empty Duplicates view.
C14_DuplicatesView ==
    /\ Exported =>
          \A g \in ConfirmedGroups(Answered) :
              LET group == Answered.duplicate_groups[g]
                  listed == RowsOfGroup(response.body.duplicates, group.duplicate_id)
              IN  /\ [k \in 1..Len(listed) |-> listed[k].Original_Row_Index] = Indices(group)
                  /\ \A k \in 1..Len(listed) :
                        listed[k].Canonical_Row_Index = Indices(group)[1]
                  /\ { k \in 1..Len(listed) : listed[k].Is_Canonical } = {1}
    /\ (response.op = "export" /\ response.session_id \in DOMAIN sessions
            /\ ConfirmedGroups(Answered) = {})
          => (response.status = 200 /\ response.body.duplicates = <<>>)

\* C14 witness: an export of a session with a confirmed group of three members.
C14_Witness ==
    /\ Exported
    /\ \E g \in ConfirmedGroups(Answered) : Len(Answered.duplicate_groups[g].rows) = 3

\* The member sequences of a group list, in list order.
Membership(groups) == [g \in 1..Len(groups) |-> Indices(groups[g])]

RowsWithMatch(m, threshold) ==
    { i \in DOMAIN m : \E j \in DOMAIN m : j # i /\ m[i][j] >= threshold }

\* C16: every group has at least two members and no row twice, and a table
\* with no off-diagonal score >= threshold (a single-row table included, its
\* diagonal being at the top of the scale) has no group after analyze.
C16_NoSingletonNoSelf ==
    \A s \in Runs :
        /\ \A g \in 1..Len(Groups(s)) :
              /\ Len(Groups(s)[g].rows) >= 2
              /\ Cardinality(Range(Indices(Groups(s)[g]))) = Len(Groups(s)[g].rows)
        /\ RowsWithMatch(Matrix(s), sessions[s].similarity_threshold) = {}
              => Groups(s) = <<>>

\* C16 witness: a table of several rows, none scoring another at or above the
\* threshold, was analysed and has no group, while every diagonal entry is at
\* or above the threshold.
C16_Witness ==
    /\ Analyzed
    /\ Answered.original_df.rows >= 2
    /\ RowsWithMatch(Answered.original_df.similarity, Answered.similarity_threshold) = {}
    /\ \A i \in DOMAIN Answered.original_df.similarity :
          Answered.original_df.similarity[i][i] >= Answered.similarity_threshold
    /\ response.body.duplicate_groups = 0

\* C17: a review on one session leaves every other session as it was, and the
\* ledger it leaves is the one a review of any other group id would have left
\* had the two calls been served in the opposite order.
C17_ReviewIsolatedCommutes ==
    [][\A s \in DOMAIN sessions, d \in KnownGroupIds, b \in BOOLEAN :
          ReviewDuplicate(s, d, b) =>
              /\ DOMAIN sessions' = DOMAIN sessions
              /\ \A o \in DOMAIN sessions \ {s} : sessions'[o] = sessions[o]
              /\ \A d2 \in KnownGroupIds \ {d}, b2 \in BOOLEAN :
                    SetVerdict(sessions'[s].reviewed_duplicates, d2, b2)
                        = SetVerdict(SetVerdict(sessions[s].reviewed_duplicates, d2, b2), d, b)]_vars

\* C17 witness: a second review, of another group id, was served on a session
\* while another session holds groups.
C17_Witness ==
    /\ Reviewed
    /\ Cardinality(DOMAIN Answered.reviewed_duplicates) = 2
    /\ \E o \in DOMAIN sessions \ {response.session_id} : sessions[o].duplicate_groups # <<>>

\* The rows that open a group of the run, and the rows an anchor claimed.
Anchors(groups) == { Indices(groups[g])[1] : g \in 1..Len(groups) }
Claimed(groups) == UNION { Range(Tail(Indices(groups[g]))) : g \in 1..Len(groups) }

\* C18: after an analyze run, every row that scores >= threshold against some
\* other row is a member of at least one group of the run: no such row is left
\* ungrouped.
C18_Coverage ==
    \A s \in Runs :
        RowsWithMatch(Matrix(s), sessions[s].similarity_threshold)
            \subseteq GroupedRows(Groups(s))

\* C18 witness: an analyze run in which one row with a match was claimed by an
\* earlier anchor without anchoring a group itself, and another row with a
\* match, which no earlier anchor claimed, anchors its own group.
C18_Witness ==
    /\ Analyzed
    /\ LET m == Answered.original_df.similarity
           with == RowsWithMatch(m, Answered.similarity_threshold)
           groups == Answered.duplicate_groups
       IN  /\ \E i \in with : i \in Claimed(groups) /\ i \notin Anchors(groups)
           /\ \E k \in with : k > 0 /\ k \in Anchors(groups) /\ k \notin Claimed(groups)

\* C19: when the similarity matrix is symmetric, no row that opens a group of a
\* run is a non-first member of any group of that run; and so the report of an
\* export leaves no canonical row (first member of a confirmed group) out of
\* its de-duplicated view.
C19_SymmetricAnchorsSurvive ==
    /\ \A s \in Runs :
          Symmetric(Matrix(s)) => Anchors(Groups(s)) \cap Claimed(Groups(s)) = {}
    /\ (Exported /\ Symmetric(Answered.original_df.similarity)) =>
          \A g \in ConfirmedGroups(Answered) :
              Indices(Answered.duplicate_groups[g])[1] \notin RemovedRows(response.body)

\* C19 witness: an export of a session whose symmetric matrix gave two groups
\* sharing a member, both confirmed, so that rows are removed.
C19_Witness ==
    /\ Exported
    /\ Symmetric(Answered.original_df.similarity)
    /\ Overlapping(Answered) # {}
    /\ Cardinality(ConfirmedGroups(Answered)) = 2
    /\ RemovedRows(response.body) # {}

\* C20: an export call leaves every session as it was (original table, group
\* list, ledger, threshold, column selection), so an export that directly
\* follows an export of the same session returns the same four views; and a
\* review call changes nothing but the ledger entry of the reviewed id.
C20_ExportReviewFrame ==
    [][/\ \A s \in KnownSessionIds :
             ExportReport(s) =>
                 /\ sessions' = sessions
                 /\ uuid' = uuid
                 /\ (Exported /\ response.session_id = s) => response'.body = response.body
       /\ \A s \in DOMAIN sessions, d \in KnownGroupIds, b \in BOOLEAN :
             ReviewDuplicate(s, d, b) =>
                 LET old == sessions[s].reviewed_duplicates
                     new == sessions'[s].reviewed_duplicates
                 IN  /\ DOMAIN sessions' = DOMAIN sessions
                     /\ \A o \in DOMAIN sessions \ {s} : sessions'[o] = sessions[o]
                     /\ [sessions'[s] EXCEPT !.reviewed_duplicates = <<>>]
                            = [sessions[s] EXCEPT !.reviewed_duplicates = <<>>]
                     /\ DOMAIN new \ {d} = DOMAIN old \ {d}
                     /\ \A e \in DOMAIN old \ {d} : new[e] = old[e]
                     /\ uuid' = uuid]_vars

\* C20 witness: an export was served for a session that holds groups and a
\* confirmed verdict, so that the report removes rows.
C20_Witness ==
    /\ Exported
    /\ Answered.duplicate_groups # <<>>
    /\ ConfirmedGroups(Answered) # {}
    /\ response.body.statistics.rows_removed > 0

====
